---- MODULE Spec2Model ----
(***************************************************************************)
(* Model of the PasscodeLock plugin (src/plugins/PasscodeLock/index.tsx).  *)
(*                                                                         *)
(* The state is the three module-level variables attemptCount, lockTime    *)
(* and isModalOpen, the plugin settings, the modals the plugin has opened  *)
(* through openModal, the timers it has scheduled with setTimeout, the     *)
(* keydown listener registration and the wall clock read by Date.now().    *)
(* Every event handler of the file is one action.                          *)
(***************************************************************************)
EXTENDS Integers, Sequences, FiniteSets, TLC

VARIABLES
    passcode,           \* settings.store.passcode
    lockOnStartup,      \* settings.store.lockOnStartup
    timeout,            \* settings.store.timeout (seconds)
    maxAttempts,        \* settings.store.maxAttempts
    lockDuration,       \* settings.store.lockDuration (seconds)
    attemptCount,       \* let attemptCount
    lockTime,           \* let lockTime (0 = never set)
    isModalOpen,        \* let isModalOpen
    loginOpen,          \* number of LoginPasscodeModal instances on screen
    registerOpen,       \* number of RegisterPasscodeModal instances on screen
    deferredOpens,      \* due times of the 100 ms startup setTimeout callbacks
    idleTimers,         \* due times of the idle setTimeout callbacks
    listenerRegistered, \* handleKeyDown is a keydown listener of document
    lifecycle,          \* last lifecycle hook the host called
    starts,             \* number of start() calls made so far
    now,                \* Date.now()
    last,               \* the event handled by the last step
    notification,       \* body of the notification shown by the last step
    ret,                \* outcome of the unlockDiscord call of the last step
    form                \* fields of the registration form the last step sent

vars == <<passcode, lockOnStartup, timeout, maxAttempts, lockDuration,
          attemptCount, lockTime, isModalOpen, loginOpen, registerOpen,
          deferredOpens, idleTimers, listenerRegistered, lifecycle, starts,
          now, last, notification, ret, form>>

config == <<lockOnStartup, timeout, maxAttempts, lockDuration>>

----------------------------------------------------------------------------
(* Bounds of the model *)

MaxNow == 2500          \* the clock stops advancing here
MaxStarts == 2          \* start() is called at most this many times
MaxCount == 4           \* attemptCount is not driven beyond this

(* Constants of the program *)

MsPerSecond == 1000     \* the factor 1000 of lines 59, 77 and 274
OpenDelay == 100        \* delay of the deferred startup open, line 251
MinPasscodeLength == 4  \* validatePasscodeStrength, line 46

----------------------------------------------------------------------------
(* Strings are sequences of characters; these are the ones that are typed. *)

Empty == <<>>
Short == <<1, 2, 3>>
CodeA == <<1, 2, 3, 4>>

Typed == {Empty, Short, CodeA}

StoredAtLoad == {Empty, CodeA}

TickSteps == {500}
StartTimes == {1000}
MaxAttemptsValues == {1, 2, 3}
LockDurationValues == {0, 1}
TimeoutValues == {0, 1}

KeyEvents == [ctrlKey : BOOLEAN, key : {"l", "x"}]

NoForm == [sent |-> FALSE, newPasscode |-> Empty, confirmPasscode |-> Empty]

NoCall == [called |-> FALSE, entered |-> Empty, value |-> FALSE,
           error |-> "", n |-> 0]

----------------------------------------------------------------------------
(* Math.floor in the place of Math.ceil, line 59 *)
Ceil_Floor(a, b) == a \div b

(* Math.ceil(a / b) for b > 0 *)
Ceil(a, b) == -((-a) \div b)

(* validatePasscodeStrength with a minimum of 3 *)
validatePasscodeStrength_Min3(p) == Len(p) >= MinPasscodeLength - 1

validatePasscodeStrength(p) == Len(p) >= MinPasscodeLength

(* The test of line 58: lockTime && Date.now() < lockTime *)
isLockedOut == lockTime # 0 /\ now < lockTime

(* What one call of unlockDiscord leaves behind: the three module          *)
(* variables, the notification it showed, the boolean it returned and the  *)
(* message it gave to setError (its kind and the number it shows).         *)
Outcome(count, expiry, open, shown, entered, value, error, n) ==
    [attemptCount |-> count, lockTime |-> expiry, isModalOpen |-> open,
     notification |-> shown,
     ret |-> [called |-> TRUE, entered |-> entered, value |-> value,
              error |-> error, n |-> n]]

(* A rejection during a lockout that counts as one more attempt *)
Lockout_Counts(entered) ==
    Outcome(attemptCount + 1, lockTime, isModalOpen, "none", entered, FALSE,
            "lockout", Ceil(lockTime - now, MsPerSecond))

(* A rejection during a lockout that starts the lockout afresh *)
Lockout_Extends(entered) ==
    Outcome(attemptCount, now + lockDuration * MsPerSecond, isModalOpen,
            "none", entered, FALSE, "lockout",
            Ceil(lockTime - now, MsPerSecond))

(* Lines 58-62 *)
Lockout(entered) ==
    Outcome(attemptCount, lockTime, isModalOpen, "none", entered, FALSE,
            "lockout", Ceil(lockTime - now, MsPerSecond))

(* Lines 65-73 *)
Accepted(entered) ==
    Outcome(0, lockTime, FALSE, "unlocked", entered, TRUE, "", 0)

(* Lines 77-78, after attemptCount++ *)
LockoutTriggered(entered) ==
    Outcome(attemptCount + 1, now + lockDuration * MsPerSecond, isModalOpen,
            "none", entered, FALSE, "lockout-triggered", lockDuration)

(* The message of line 80 computed before attemptCount++ *)
Wrong_BeforeIncrement(entered) ==
    Outcome(attemptCount + 1, lockTime, isModalOpen, "none", entered, FALSE,
            "wrong", maxAttempts - attemptCount)

(* Line 80, after attemptCount++ *)
Wrong(entered) ==
    Outcome(attemptCount + 1, lockTime, isModalOpen, "none", entered, FALSE,
            "wrong", maxAttempts - (attemptCount + 1))

(* unlockDiscord without the lockout test of line 58 *)
unlockDiscord_NoLockoutTest(entered) ==
    IF entered = passcode THEN Accepted(entered)
    ELSE IF attemptCount + 1 >= maxAttempts THEN LockoutTriggered(entered)
    ELSE Wrong(entered)

(* unlockDiscord refusing every passcode once the attempts are used up *)
unlockDiscord_CountBeforeCompare(entered) ==
    IF isLockedOut THEN Lockout(entered)
    ELSE IF entered = passcode /\ attemptCount < maxAttempts
    THEN Accepted(entered)
    ELSE IF attemptCount + 1 >= maxAttempts THEN LockoutTriggered(entered)
    ELSE Wrong(entered)

(* unlockDiscord with > for the >= of line 76 *)
unlockDiscord_OffByOne(entered) ==
    IF isLockedOut THEN Lockout(entered)
    ELSE IF entered = passcode THEN Accepted(entered)
    ELSE IF attemptCount + 1 > maxAttempts THEN LockoutTriggered(entered)
    ELSE Wrong(entered)

(* unlockDiscord storing the duration instead of the expiry time, line 77 *)
unlockDiscord_RelativeLockTime(entered) ==
    IF isLockedOut THEN Lockout(entered)
    ELSE IF entered = passcode THEN Accepted(entered)
    ELSE IF attemptCount + 1 >= maxAttempts
    THEN Outcome(attemptCount + 1, lockDuration * MsPerSecond, isModalOpen,
                 "none", entered, FALSE, "lockout-triggered", lockDuration)
    ELSE Wrong(entered)

(* unlockDiscord starting a fresh count once a lockout has expired *)
unlockDiscord_ResetOnExpiry(entered) ==
    IF isLockedOut THEN Lockout(entered)
    ELSE IF entered = passcode THEN Accepted(entered)
    ELSE IF attemptCount >= maxAttempts
    THEN IF 1 >= maxAttempts
         THEN Outcome(1, now + lockDuration * MsPerSecond, isModalOpen,
                      "none", entered, FALSE, "lockout-triggered",
                      lockDuration)
         ELSE Outcome(1, lockTime, isModalOpen, "none", entered, FALSE,
                      "wrong", maxAttempts - 1)
    ELSE IF attemptCount + 1 >= maxAttempts THEN LockoutTriggered(entered)
    ELSE Wrong(entered)

(* unlockDiscord(enteredPasscode, setError) *)
unlockDiscord(entered) ==
    IF isLockedOut THEN Lockout(entered)
    ELSE IF entered = passcode THEN Accepted(entered)
    ELSE IF attemptCount + 1 >= maxAttempts THEN LockoutTriggered(entered)
    ELSE Wrong(entered)

----------------------------------------------------------------------------
Init ==
    /\ passcode \in StoredAtLoad
    /\ lockOnStartup \in BOOLEAN
    /\ timeout \in TimeoutValues
    /\ maxAttempts \in MaxAttemptsValues
    /\ lockDuration \in LockDurationValues
    /\ attemptCount = 0
    /\ lockTime = 0
    /\ isModalOpen = FALSE
    /\ loginOpen = 0
    /\ registerOpen = 0
    /\ deferredOpens = <<>>
    /\ idleTimers = <<>>
    /\ listenerRegistered = TRUE
    /\ lifecycle = "loaded"
    /\ starts = 0
    /\ now \in StartTimes
    /\ last = "load"
    /\ notification = "none"
    /\ ret = NoCall
    /\ form = NoForm

(* A trigger that opens its modal without looking at isModalOpen *)
OpenLoginAlways ==
    /\ isModalOpen' = TRUE
    /\ loginOpen' = loginOpen + 1

(* A trigger that opens its modal and leaves isModalOpen as it was *)
OpenLoginForgetsFlag ==
    IF ~isModalOpen
    THEN /\ UNCHANGED isModalOpen
         /\ loginOpen' = loginOpen + 1
    ELSE UNCHANGED <<isModalOpen, loginOpen>>

(* The modal a trigger opens: lines 194-210, 257-273.                      *)
(* lockDiscord() has shown its notification before the test.               *)
OpenLoginIfClosed ==
    IF ~isModalOpen
    THEN /\ isModalOpen' = TRUE
         /\ loginOpen' = loginOpen + 1
    ELSE UNCHANGED <<isModalOpen, loginOpen>>

(* handleKeyDown(e), called for a keydown event of document while the      *)
(* listener is registered.                                                 *)
handleKeyDown(e) ==
    IF e.ctrlKey /\ e.key = "l"
    THEN /\ notification' = "locked"
         /\ OpenLoginIfClosed
    ELSE /\ notification' = "none"
         /\ UNCHANGED <<isModalOpen, loginOpen>>

KeyDown(e) ==
    /\ last' = (IF e.ctrlKey /\ e.key = "l" THEN "ctrlL" ELSE "otherKey")
    /\ form' = NoForm
    /\ ret' = NoCall
    /\ IF listenerRegistered
       THEN handleKeyDown(e)
       ELSE /\ notification' = "none"
            /\ UNCHANGED <<isModalOpen, loginOpen>>
    /\ UNCHANGED <<passcode, config, attemptCount, lockTime, registerOpen,
                   deferredOpens, idleTimers, listenerRegistered, lifecycle,
                   starts, now>>

(* start() *)
start ==
    /\ starts < MaxStarts
    /\ starts' = starts + 1
    /\ lifecycle' = "started"
    /\ last' = "start"
    /\ form' = NoForm
    /\ ret' = NoCall
    /\ IF passcode = Empty
       THEN /\ registerOpen' = registerOpen + 1
            /\ notification' = "none"
            /\ UNCHANGED <<isModalOpen, deferredOpens, idleTimers>>
       ELSE /\ IF lockOnStartup
               THEN /\ notification' = "locked"
                    /\ IF ~isModalOpen
                       THEN /\ isModalOpen' = TRUE
                            /\ deferredOpens' =
                                   Append(deferredOpens, now + OpenDelay)
                       ELSE UNCHANGED <<isModalOpen, deferredOpens>>
               ELSE /\ notification' = "none"
                    /\ UNCHANGED <<isModalOpen, deferredOpens>>
            /\ idleTimers' = Append(idleTimers, now + timeout * MsPerSecond)
            /\ UNCHANGED registerOpen
    /\ UNCHANGED <<passcode, config, attemptCount, lockTime, loginOpen,
                   listenerRegistered, now>>

(* stop() *)
stop ==
    /\ listenerRegistered' = FALSE
    /\ lifecycle' = "stopped"
    /\ last' = "stop"
    /\ form' = NoForm
    /\ ret' = NoCall
    /\ notification' = "none"
    /\ UNCHANGED <<passcode, config, attemptCount, lockTime, isModalOpen,
                   loginOpen, registerOpen, deferredOpens, idleTimers,
                   starts, now>>

(* The callback of the setTimeout of lines 236-251.  Timers run late, but  *)
(* in the order of their due times.                                        *)
DeferredOpen ==
    /\ deferredOpens # <<>>
    /\ Head(deferredOpens) <= now
    /\ IF idleTimers = <<>> THEN TRUE
       ELSE Head(deferredOpens) <= Head(idleTimers)
    /\ deferredOpens' = Tail(deferredOpens)
    /\ loginOpen' = loginOpen + 1
    /\ last' = "deferredOpen"
    /\ form' = NoForm
    /\ ret' = NoCall
    /\ notification' = "none"
    /\ UNCHANGED <<passcode, config, attemptCount, lockTime, isModalOpen,
                   registerOpen, idleTimers, listenerRegistered, lifecycle,
                   starts, now>>

(* The callback of the setTimeout of lines 255-274. *)
IdleTimer ==
    /\ idleTimers # <<>>
    /\ Head(idleTimers) <= now
    /\ IF deferredOpens = <<>> THEN TRUE
       ELSE Head(idleTimers) <= Head(deferredOpens)
    /\ idleTimers' = Tail(idleTimers)
    /\ notification' = "locked"
    /\ OpenLoginIfClosed
    /\ last' = "idleTimer"
    /\ form' = NoForm
    /\ ret' = NoCall
    /\ UNCHANGED <<passcode, config, attemptCount, lockTime, registerOpen,
                   deferredOpens, listenerRegistered, lifecycle, starts, now>>

(* The Unlock button or the Enter key of a LoginPasscodeModal, lines       *)
(* 164-170 and 178-182, with the onClose the opener passed.                *)
LoginSubmit(entered) ==
    LET r == unlockDiscord(entered) IN
    /\ loginOpen > 0
    /\ r.attemptCount <= MaxCount
    /\ attemptCount' = r.attemptCount
    /\ lockTime' = r.lockTime
    /\ notification' = r.notification
    /\ ret' = r.ret
    /\ IF r.ret.value
       THEN /\ isModalOpen' = FALSE
            /\ loginOpen' = loginOpen - 1
       ELSE /\ isModalOpen' = r.isModalOpen
            /\ UNCHANGED loginOpen
    /\ last' = "loginSubmit"
    /\ form' = NoForm
    /\ UNCHANGED <<passcode, config, registerOpen, deferredOpens, idleTimers,
                   listenerRegistered, lifecycle, starts, now>>

(* The Set Passcode button of a RegisterPasscodeModal, lines 124-140. *)
RegisterSubmit(newPasscode, confirmPasscode) ==
    /\ registerOpen > 0
    /\ IF newPasscode # Empty /\ newPasscode = confirmPasscode
       THEN IF ~validatePasscodeStrength(newPasscode)
            THEN /\ notification' = "none"
                 /\ UNCHANGED <<passcode, registerOpen>>
            ELSE /\ passcode' = newPasscode
                 /\ registerOpen' = registerOpen - 1
                 /\ notification' = "set"
       ELSE /\ notification' = "none"
            /\ UNCHANGED <<passcode, registerOpen>>
    /\ last' = "registerSubmit"
    /\ form' = [sent |-> TRUE, newPasscode |-> newPasscode,
                 confirmPasscode |-> confirmPasscode]
    /\ ret' = NoCall
    /\ UNCHANGED <<config, attemptCount, lockTime, isModalOpen, loginOpen,
                   deferredOpens, idleTimers, listenerRegistered, lifecycle,
                   starts, now>>

(* A close request that the host honours by closing a login modal *)
CloseRequest_Closes ==
    /\ loginOpen + registerOpen > 0
    /\ last' = "closeRequest"
    /\ form' = NoForm
    /\ ret' = NoCall
    /\ notification' = "none"
    /\ loginOpen' = IF loginOpen > 0 THEN loginOpen - 1 ELSE loginOpen
    /\ UNCHANGED <<passcode, config, attemptCount, lockTime, isModalOpen,
                   registerOpen, deferredOpens, idleTimers,
                   listenerRegistered, lifecycle, starts, now>>

(* A close request of the modal host (Escape, backdrop click) reaches      *)
(* onCloseRequest: () => {} of lines 207, 226, 248, 270.                   *)
CloseRequest ==
    /\ loginOpen + registerOpen > 0
    /\ last' = "closeRequest"
    /\ form' = NoForm
    /\ ret' = NoCall
    /\ notification' = "none"
    /\ UNCHANGED <<passcode, config, attemptCount, lockTime, isModalOpen,
                   loginOpen, registerOpen, deferredOpens, idleTimers,
                   listenerRegistered, lifecycle, starts, now>>

(* Time passes: Date.now() does not go backwards. *)
Tick(d) ==
    /\ now + d <= MaxNow
    /\ now' = now + d
    /\ last' = "tick"
    /\ form' = NoForm
    /\ ret' = NoCall
    /\ notification' = "none"
    /\ UNCHANGED <<passcode, config, attemptCount, lockTime, isModalOpen,
                   loginOpen, registerOpen, deferredOpens, idleTimers,
                   listenerRegistered, lifecycle, starts>>

Next ==
    \/ \E e \in KeyEvents : KeyDown(e)
    \/ start
    \/ stop
    \/ DeferredOpen
    \/ IdleTimer
    \/ \E s \in Typed : LoginSubmit(s)
    \/ \E s \in Typed, c \in Typed : RegisterSubmit(s, c)
    \/ CloseRequest
    \/ \E d \in TickSteps : Tick(d)

Spec == Init /\ [][Next]_vars

(* Lockouts of several seconds, for what is shown while one is active. *)
LongDurationValues == {2, 3}

InitLong ==
    /\ passcode \in StoredAtLoad
    /\ lockOnStartup \in BOOLEAN
    /\ timeout = 1
    /\ maxAttempts \in {1, 2}
    /\ lockDuration \in LongDurationValues
    /\ attemptCount = 0
    /\ lockTime = 0
    /\ isModalOpen = FALSE
    /\ loginOpen = 0
    /\ registerOpen = 0
    /\ deferredOpens = <<>>
    /\ idleTimers = <<>>
    /\ listenerRegistered = TRUE
    /\ lifecycle = "loaded"
    /\ starts = 0
    /\ now \in StartTimes
    /\ last = "load"
    /\ notification = "none"
    /\ ret = NoCall
    /\ form = NoForm

SpecLong == InitLong /\ [][Next]_vars

(* One configuration whose lockouts end within the modelled time, with a   *)
(* clock that keeps advancing as long as it can.                           *)
InitLive ==
    /\ Init
    /\ lockOnStartup
    /\ timeout = 0
    /\ maxAttempts = 1
    /\ lockDuration = 1

SpecLive ==
    InitLive /\ [][Next]_vars /\ WF_vars(\E d \in TickSteps : Tick(d))

TypeOK ==
    /\ passcode \in Typed
    /\ attemptCount \in 0..MaxCount
    /\ lockTime \in Nat
    /\ isModalOpen \in BOOLEAN
    /\ loginOpen \in Nat
    /\ registerOpen \in Nat
    /\ now \in Nat

----------------------------------------------------------------------------
(* The step just taken was a call of unlockDiscord from a login modal. *)
Submitted == ret'.called

(* C1: while a lockout is active (lockTime is set and now < lockTime),     *)
(* every submission, the configured passcode included, is rejected with    *)
(* the lockout message; none is accepted before lockTime.                  *)
C1_LockoutRejectsAll ==
    [][(isLockedOut /\ Submitted)
          => (~ret'.value /\ ret'.error = "lockout" /\ loginOpen' = loginOpen)]_vars

C1_Witness ==
    ret.called /\ ret.entered = passcode /\ ret.error = "lockout"

(* C2: whenever no lockout is active, submitting the configured passcode   *)
(* is accepted and leaves attemptCount = 0, whatever came before: fewer    *)
(* than maxAttempts wrong attempts, or an expired lockout with             *)
(* attemptCount still at or above maxAttempts.                             *)
C2_CorrectAccepted ==
    [][(Submitted /\ ~isLockedOut /\ ret'.entered = passcode)
          => (ret'.value /\ attemptCount' = 0)]_vars

C2_Witness ==
    /\ ret.called /\ ret.value
    /\ lockTime # 0 /\ lockDuration > 0 /\ lockTime <= now

(* C3: the wrong submission that brings attemptCount from 0 up to          *)
(* maxAttempts sets lockTime to now + lockDuration*1000 and reports the    *)
(* lockout as triggered, and every submission after that and before        *)
(* lockTime, correct or not, is rejected as locked out.                    *)
C3_LockoutAfterMaxAttempts ==
    [][/\ (Submitted /\ ret'.entered # passcode
              /\ attemptCount + 1 = maxAttempts)
          => /\ lockTime' = now + lockDuration * MsPerSecond
             /\ ret'.error = "lockout-triggered"
             /\ ret'.n = lockDuration
       /\ (Submitted /\ attemptCount >= maxAttempts /\ now < lockTime)
          => (~ret'.value /\ ret'.error = "lockout"
                /\ UNCHANGED <<attemptCount, lockTime>>)]_vars

C3_Witness ==
    /\ ret.error = "lockout-triggered"
    /\ attemptCount = maxAttempts
    /\ lockDuration > 0
    /\ lockTime = now + lockDuration * MsPerSecond

(* C4: at most one LoginPasscodeModal is open at any time, whatever the    *)
(* order of the startup lock and its deferred open, Ctrl+L and the idle    *)
(* timers, and however often start() is called.                            *)
C4_OnePrompt == loginOpen <= 1

C4_Witness ==
    /\ loginOpen = 1 /\ isModalOpen
    /\ starts >= 2 /\ lockOnStartup
    /\ last = "idleTimer"

(* C5: an open unlock prompt closes only in a step in which an attempt is  *)
(* accepted: no rejected attempt, close request or trigger closes it.      *)
C5_OpenUntilAccepted ==
    [][loginOpen' < loginOpen => (Submitted /\ ret'.value)]_vars

C5_Witness ==
    loginOpen = 1 /\ last = "closeRequest" /\ attemptCount > 0

(* C6: a submission of the empty string is never accepted, also while the  *)
(* stored passcode is still the default "".                                *)
C6_EmptyNeverAccepted ==
    ~(ret.called /\ ret.entered = Empty /\ ret.value)

(* C7: no step opens an unlock prompt, or schedules its deferred open,     *)
(* while the stored passcode is empty.                                     *)
C7_NoUnlockPromptWithoutPasscode ==
    [][(loginOpen' > loginOpen \/ Len(deferredOpens') > Len(deferredOpens))
          => passcode # Empty]_vars

(* C8: a Ctrl+L keydown starts a lock-and-prompt cycle (lockDiscord shows  *)
(* its notification) if and only if the last lifecycle call was start().   *)
C8_ListenerFollowsLifecycle ==
    [][last' = "ctrlL"
          => (notification' = "locked" <=> lifecycle = "started")]_vars

(* C9: after every accepted attempt lockTime is cleared (0) and            *)
(* attemptCount is 0.                                                      *)
C9_AcceptedClearsExpiry ==
    (ret.called /\ ret.value) => (lockTime = 0 /\ attemptCount = 0)

(* C10: attemptCount < maxAttempts whenever lockTime was never set, and    *)
(* the step that brings attemptCount up to maxAttempts is the step that    *)
(* sets lockTime.                                                          *)
C10_CountBelowMaxUntilLockout ==
    /\ [](lockTime = 0 => attemptCount < maxAttempts)
    /\ [][(attemptCount < maxAttempts /\ attemptCount' >= maxAttempts)
             => (lockTime' # 0
                   /\ lockTime' = now + lockDuration * MsPerSecond)]_vars

C10_Witness ==
    attemptCount = maxAttempts /\ lockTime = now /\ lockDuration = 0

(* C11: from the step that uses up the attempts until an attempt is        *)
(* accepted, attemptCount stays at or above maxAttempts, also while the    *)
(* lockout expires; so the first wrong submission after the expiry sets a  *)
(* new lockTime = now + lockDuration*1000 and is never answered with the   *)
(* plain "attempts remaining" message.                                     *)
C11_WrongAfterExpiryRelocks ==
    [][/\ (attemptCount >= maxAttempts /\ ~(Submitted /\ ret'.value))
          => attemptCount' >= maxAttempts
       /\ (Submitted /\ attemptCount >= maxAttempts /\ ~isLockedOut
              /\ ret'.entered # passcode)
          => /\ ret'.error = "lockout-triggered"
             /\ ret'.n = lockDuration
             /\ lockTime' = now + lockDuration * MsPerSecond
             /\ attemptCount' > maxAttempts]_vars

C11_Witness ==
    /\ ret.error = "lockout-triggered"
    /\ attemptCount > maxAttempts
    /\ lockDuration > 0
    /\ maxAttempts > 1

(* C12: with attemptCount = i - 1 < maxAttempts, the i-th wrong attempt    *)
(* in a row reports maxAttempts - i attempts remaining (at least 1) when   *)
(* i < maxAttempts, and reports the lockout as triggered, for              *)
(* lockDuration seconds, when i = maxAttempts.                             *)
C12_AttemptsRemaining ==
    [][(Submitted /\ ret'.entered # passcode /\ attemptCount < maxAttempts)
          => IF attemptCount + 1 < maxAttempts
             THEN /\ ret'.error = "wrong"
                  /\ ret'.n = maxAttempts - (attemptCount + 1)
                  /\ ret'.n >= 1
             ELSE /\ ret'.error = "lockout-triggered"
                  /\ ret'.n = lockDuration]_vars

C12_Witness ==
    /\ ret.error = "wrong" /\ ret.n = 1
    /\ maxAttempts = 3 /\ attemptCount = 2

(* C13: a registration stores the candidate exactly when it is non-empty,  *)
(* equals its confirmation and has at least 4 characters, and then closes  *)
(* the prompt; otherwise the stored passcode is unchanged and the prompt   *)
(* stays open.  A passcode stored by a registration has length >= 4.       *)
C13_RegistrationValidates ==
    [][form'.sent
          => IF /\ form'.newPasscode # Empty
                /\ form'.newPasscode = form'.confirmPasscode
                /\ Len(form'.newPasscode) >= 4
             THEN /\ passcode' = form'.newPasscode
                  /\ Len(passcode') >= 4
                  /\ registerOpen' = registerOpen - 1
             ELSE UNCHANGED <<passcode, registerOpen>>]_vars

C13_Witness ==
    /\ form.sent
    /\ form.newPasscode = Short /\ form.confirmPasscode = Short
    /\ passcode = Empty /\ registerOpen > 0

(* C15: a submission rejected because a lockout is active leaves           *)
(* attemptCount, lockTime, isModalOpen and the open prompt as they were.   *)
C15_LockoutRejectionChangesNothing ==
    [][(Submitted /\ (isLockedOut \/ ret'.error = "lockout"))
          => UNCHANGED <<attemptCount, lockTime, isModalOpen, loginOpen>>]_vars

C15_Witness ==
    /\ ret.error = "lockout" /\ ret.entered # passcode
    /\ attemptCount = maxAttempts /\ isModalOpen

(* C17: isModalOpen is true exactly when an unlock prompt is open or its   *)
(* deferred startup open is pending.                                       *)
C17_FlagTracksPrompt ==
    isModalOpen <=> (loginOpen > 0 \/ deferredOpens # <<>>)

C17_Witness ==
    /\ last = "ctrlL" /\ notification = "locked"
    /\ loginOpen = 1 /\ isModalOpen
    /\ attemptCount = 0 /\ lockTime # 0

(* C14: every start() schedules the idle timer for timeout seconds later,  *)
(* and when an idle timer fires an unlock prompt is open afterwards.       *)
C14_StartSchedulesIdleTimer ==
    [][/\ last' = "start"
          => idleTimers' = Append(idleTimers, now + timeout * MsPerSecond)
       /\ last' = "idleTimer" => loginOpen' > 0]_vars

(* C16: no submission moves the expiry of an active lockout, which is      *)
(* lockDuration*1000 after the step that triggered it; so with a clock     *)
(* that keeps advancing every lockout ends, and once lockTime is reached   *)
(* the configured passcode is accepted.                                    *)
C16_LockoutEnds ==
    /\ [][/\ isLockedOut => lockTime' = lockTime
          /\ ret'.error = "lockout-triggered"
             => lockTime' = now + lockDuration * MsPerSecond
          /\ (Submitted /\ lockTime # 0 /\ now >= lockTime
                 /\ ret'.entered = passcode)
             => ret'.value]_vars
    /\ (isLockedOut /\ lockTime <= MaxNow) ~> (~isLockedOut)

C16_Witness ==
    /\ ret.called /\ ret.value /\ ret.entered # Empty
    /\ lockTime # 0 /\ now = lockTime /\ last = "loginSubmit"

====
